--------------------------- MODULE ThreadedShell ----------------------------
(***************************************************************************)
(* The shell engine of ShellServerThreaded/shell.c: a thread per client    *)
(* reads commands and runs them, as a function of its own or in a child.   *)
(* Each client has a working directory and a path, but the process has one *)
(* of each: cwd_fake and path_fake set them before they matter.  Commands  *)
(* that end with 0 are written to the log.  fork copies the process as the *)
(* other threads happen to leave it: its directory, what stdio has not     *)
(* written yet, and the locks of the C library.                            *)
(*                                                                         *)
(* The table of the clients, and so exit, is in ClientTable.  Functions    *)
(* that touch the state of their own client only (pwd, id, info, umask,    *)
(* setpath, clientinfo) are left out.                                      *)
(***************************************************************************)
EXTENDS Integers, Sequences, FiniteSets

CONSTANTS
  Threads,
  Dirs, Root,   \* directories; the server was started in Root
  Enter,        \* Enter[d]: the subdirectory that "cd-x" goes to, NoDir if none
  NoDir,
  Commands,     \* what is typed
  MaxCommands,  \* bound: commands per thread
  MayRemove,    \* the directories somebody may remove
  Nobody

ASSUME ShellAssumption ==
  /\ Root \in Dirs /\ NoDir \notin Dirs
  /\ Enter \in [Dirs -> Dirs \cup {NoDir}]
  /\ MayRemove \subseteq Dirs \ {Root}
  /\ Nobody \notin Threads
  /\ MaxCommands \in Nat
  /\ Commands \subseteq {"cd", "cd-x", "run", "run-bg", "missing", "getlog",
                         "printenv", "stop-server"}

VARIABLES
  onDisk,  \* the directories there are
  proc,    \* what the process has one of
  pc,
  dir,     \* client.cwd
  cmd,     \* the command of each thread
  count,   \* how many commands it has read
  kids,    \* the children, each for a command of a thread
  wild     \* a FILE that was closed has been used

own == <<dir, cmd, count>>
vars == <<onDisk, proc, pc, dir, cmd, count, kids, wild>>

Init ==
  /\ onDisk = Dirs
  /\ proc = [cwd |-> Root,       \* working directory
             cwdMutex |-> Nobody, logMutex |-> Nobody, pathMutex |-> Nobody,
             envLock |-> Nobody, \* the lock of setenv
             buf |-> << >>,      \* written to LOGFD and not yet flushed
             log |-> << >>,      \* the log file
             open |-> TRUE,      \* whether LOGFD is open
             echoed |-> FALSE]   \* whether a child wrote what it had copied of buf
  /\ pc = [t \in Threads |-> "prompt"]
  /\ dir = [t \in Threads |-> Root]
  /\ cmd = [t \in Threads |-> "none"]
  /\ count = [t \in Threads |-> 0]
  /\ kids = {}
  /\ wild = FALSE

Goto(t, l) == pc' = [pc EXCEPT ![t] = l]

\* chdir(client.cwd), of a process whose directory is cwd
CwdFakeMut(home, cwd) == cwd                \* it is not called
CwdFake(home, cwd) == IF home \in onDisk THEN home ELSE cwd

-----------------------------------------------------------------------------
\* readline, splitcommand and the search in builtin_cmd.  An empty line, also
\* at the end of the connection, only repeats the prompt.
FirstStep(c) ==
  CASE c \in {"cd", "cd-x"} -> "cd"
    [] c \in {"run", "run-bg", "missing"} -> "fork"
    [] OTHER -> c

ReadCommand(t) ==
  /\ pc[t] = "prompt" /\ count[t] < MaxCommands
  /\ \E c \in Commands :
       /\ cmd' = [cmd EXCEPT ![t] = c]
       /\ Goto(t, FirstStep(c))
  /\ count' = [count EXCEPT ![t] = @ + 1]
  /\ UNCHANGED <<onDisk, proc, dir, kids, wild>>

CwdFreeMut == TRUE                          \* cd does not lock
CwdFree == proc.cwdMutex = Nobody

CdLock(t) ==
  /\ pc[t] = "cd" /\ CwdFree
  /\ proc' = [proc EXCEPT !.cwdMutex = t, !.cwd = CwdFake(dir[t], @)]
  /\ Goto(t, "chdir")
  /\ UNCHANGED <<onDisk, own, kids, wild>>

\* "cd" goes to Root, "cd-x" is relative.
Target(c) == IF c = "cd" THEN Root
             ELSE IF proc.cwd \in onDisk THEN Enter[proc.cwd] ELSE NoDir

ChdirMut(to) == to                          \* it is taken to have worked
Chdir(to) == IF to \in onDisk THEN to ELSE proc.cwd

\* getcwd fails in a directory that was removed.
CdChange(t) ==
  LET new == Chdir(Target(cmd[t]))
  IN  /\ pc[t] = "chdir"
      /\ proc' = [proc EXCEPT !.cwdMutex = Nobody, !.cwd = new]
      /\ dir' = [dir EXCEPT ![t] = IF new \in onDisk THEN new ELSE @]
      /\ Goto(t, IF Target(cmd[t]) \in onDisk THEN "log" ELSE "prompt")
      /\ UNCHANGED <<onDisk, cmd, count, kids, wild>>

-----------------------------------------------------------------------------
\* path_fake in printenv, under path_mutex; setenv has a lock of its own.
PrintLock(t) ==
  /\ pc[t] = "printenv" /\ proc.pathMutex = Nobody
  /\ proc' = [proc EXCEPT !.pathMutex = t, !.envLock = t]
  /\ Goto(t, "setenv")
  /\ UNCHANGED <<onDisk, own, kids, wild>>

PrintSet(t) ==
  /\ pc[t] = "setenv"
  /\ proc' = [proc EXCEPT !.envLock = Nobody]
  /\ Goto(t, "print")
  /\ UNCHANGED <<onDisk, own, kids, wild>>

PrintUnlock(t) ==
  /\ pc[t] = "print"
  /\ proc' = [proc EXCEPT !.pathMutex = Nobody]
  /\ Goto(t, "log")
  /\ UNCHANGED <<onDisk, own, kids, wild>>

-----------------------------------------------------------------------------
LogFreeMut == TRUE                          \* log_mutex is not locked
LogFree == proc.logMutex = Nobody

\* fprintf and fflush of logcommand
LogLock(t) ==
  /\ pc[t] = "log" /\ LogFree
  /\ IF proc.open
     THEN /\ proc' = [proc EXCEPT !.logMutex = t,
                        !.buf = Append(@, [by |-> t, nr |-> count[t]])]
          /\ UNCHANGED wild
     ELSE wild' = TRUE /\ UNCHANGED proc
  /\ Goto(t, "flush")
  /\ UNCHANGED <<onDisk, own, kids>>

LogFlush(t) ==
  /\ pc[t] = "flush"
  /\ IF proc.open
     THEN /\ proc' = [proc EXCEPT !.log = @ \o proc.buf, !.buf = << >>,
                                  !.logMutex = Nobody]
          /\ UNCHANGED wild
     ELSE wild' = TRUE /\ UNCHANGED proc
  /\ Goto(t, "prompt")
  /\ UNCHANGED <<onDisk, own, kids>>

GetlogLock(t) ==
  /\ pc[t] = "getlog" /\ LogFree
  /\ proc' = [proc EXCEPT !.logMutex = t]
  /\ Goto(t, "fork")
  /\ UNCHANGED <<onDisk, own, kids, wild>>

\* stop-server closes the log, then ends the process with all its threads.
StopClose(t) ==
  /\ pc[t] = "stop-server" /\ proc.open
  /\ proc' = [proc EXCEPT !.log = @ \o proc.buf, !.buf = << >>, !.open = FALSE]
  /\ Goto(t, "exit")
  /\ UNCHANGED <<onDisk, own, kids, wild>>

StopExit(t) ==
  /\ pc[t] = "exit"
  /\ pc' = [u \in Threads |-> "ended"]
  /\ UNCHANGED <<onDisk, proc, own, kids, wild>>

-----------------------------------------------------------------------------
(* execfile                                                                *)

\* getlog unlocks the log when execfile returns.
AfterGetlogMut(t) == proc                   \* it does not
AfterGetlog(t) == IF cmd[t] = "getlog" THEN [proc EXCEPT !.logMutex = Nobody] ELSE proc

Fork(t) ==
  /\ pc[t] = "fork"
  /\ kids' = kids \cup {[of |-> t, nr |-> count[t], cmd |-> cmd[t], at |-> "setup",
                         home |-> dir[t], cwd |-> proc.cwd, buf |-> proc.buf,
                         blocked |-> proc.envLock # Nobody]}
  /\ Goto(t, IF cmd[t] = "run-bg" THEN "prompt" ELSE "wait")
  /\ UNCHANGED <<onDisk, proc, own, wild>>

\* A fork that fails counts as a command that ended with 0.
ForkFails(t) ==
  /\ pc[t] = "fork"
  /\ proc' = AfterGetlog(t)
  /\ Goto(t, "log")
  /\ UNCHANGED <<onDisk, own, kids, wild>>

Wait(t) ==
  \E k \in kids :
    /\ pc[t] = "wait" /\ k.of = t /\ k.nr = count[t] /\ k.at \in {"zero", "nonzero"}
    /\ kids' = kids \ {k}
    /\ proc' = AfterGetlog(t)
    /\ Goto(t, IF k.at = "zero" THEN "log" ELSE "prompt")
    /\ UNCHANGED <<onDisk, own, wild>>

\* The child k becomes new, or is gone: nobody waits for a background command.
Becomes(k, new) ==
  kids' = (kids \ {k}) \cup (IF k.cmd = "run-bg" /\ new.at \in {"zero", "nonzero"} THEN {} ELSE {new})

\* path_fake and cwd_fake in the child, which waits for ever for a lock that
\* another thread of its parent held.
KidSetup(k) ==
  /\ k.at = "setup" /\ ~k.blocked
  /\ Becomes(k, [k EXCEPT !.cwd = CwdFake(k.home, @), !.at = "exec"])
  /\ UNCHANGED <<onDisk, proc, pc, own, wild>>

\* A program has nothing of the stdio of the process that became it.
LeavesBehindMut(k) == k.buf                 \* system and exit for execvp
LeavesBehind(k) == << >>

\* execvp finds the program,
KidExec(k) ==
  /\ k.at = "exec" /\ k.cmd # "missing"
  /\ Becomes(k, [k EXCEPT !.at = "running"])
  /\ UNCHANGED <<onDisk, proc, pc, own, wild>>

\* or the child goes on to exit(1), which writes what stdio had copied.
KidFails(k) ==
  /\ k.at = "exec" /\ k.cmd = "missing"
  /\ Becomes(k, [k EXCEPT !.at = "nonzero"])
  /\ proc' = [proc EXCEPT !.log = @ \o k.buf, !.echoed = @ \/ k.buf # << >>]
  /\ UNCHANGED <<onDisk, pc, own, wild>>

KidEnd(k) ==
  /\ k.at = "running"
  /\ \E s \in {"zero", "nonzero"} : Becomes(k, [k EXCEPT !.at = s])
  /\ proc' = [proc EXCEPT !.log = @ \o LeavesBehind(k)]
  /\ UNCHANGED <<onDisk, pc, own, wild>>

\* rmdir, by anybody
Remove(d) ==
  /\ d \in onDisk \cap MayRemove /\ Enter[d] \notin onDisk
  /\ onDisk' = onDisk \ {d}
  /\ UNCHANGED <<proc, pc, own, kids, wild>>

-----------------------------------------------------------------------------
ThreadStep(t) ==
  \/ CdLock(t) \/ CdChange(t)
  \/ PrintLock(t) \/ PrintSet(t) \/ PrintUnlock(t)
  \/ LogLock(t) \/ LogFlush(t) \/ GetlogLock(t)
  \/ StopClose(t) \/ StopExit(t)
  \/ Fork(t) \/ ForkFails(t) \/ Wait(t)

KidStep(k) == KidSetup(k) \/ KidExec(k) \/ KidFails(k) \/ KidEnd(k)

Next ==
  /\ ~wild
  /\ \/ \E t \in Threads : ReadCommand(t) \/ ThreadStep(t)
     \/ \E k \in kids : KidStep(k)
     \/ \E d \in Dirs : Remove(d)

Spec == Init /\ [][Next]_vars

\* A thread that can run does.  Nothing makes a child end or a client type.
FairSpec == Spec /\ \A t \in Threads : WF_vars(~wild /\ ThreadStep(t))

-----------------------------------------------------------------------------
Entries == [by : Threads, nr : 1..MaxCommands]
Kids == [of : Threads, nr : 1..MaxCommands, cmd : Commands, home : Dirs, cwd : Dirs,
         at : {"setup", "exec", "running", "zero", "nonzero"},
         buf : Seq(Entries), blocked : BOOLEAN]

\* The values every variable ranges over.
TypeOK ==
  /\ onDisk \subseteq Dirs
  /\ proc.cwd \in Dirs /\ {proc.open, proc.echoed} \subseteq BOOLEAN
  /\ {proc.cwdMutex, proc.logMutex, proc.pathMutex, proc.envLock}
       \subseteq Threads \cup {Nobody}
  /\ proc.buf \in Seq(Entries) /\ proc.log \in Seq(Entries)
  /\ pc \in [Threads -> {"prompt", "cd", "chdir", "printenv", "setenv", "print", "log",
                         "flush", "getlog", "stop-server", "exit", "fork", "wait", "ended"}]
  /\ dir \in [Threads -> Dirs]
  /\ cmd \in [Threads -> Commands \cup {"none"}]
  /\ count \in [Threads -> 0..MaxCommands]
  /\ \A k \in kids : k \in Kids
  /\ wild \in BOOLEAN

\* A program runs in the directory of the client that started it, wherever the
\* other threads have taken the process, unless that directory is gone.
OwnDirectory ==
  \A k \in kids : k.at = "running" => k.cwd = k.home \/ k.home \notin onDisk

\* cd takes a client from its own directory, if there still is one, to the one
\* it asked for: other clients' cd make no difference.
CdFromOwnDirectory ==
  [][\A t \in Threads :
       dir'[t] # dir[t] =>
         \/ cmd[t] = "cd" /\ dir'[t] = Root
         \/ cmd[t] = "cd-x" /\ dir'[t] = Enter[dir[t]]
         \/ dir[t] \notin onDisk]_vars

\* getlog shows a log without a line that is written but not flushed.
LogReadWhole ==
  \A k \in kids :
    k.cmd = "getlog" /\ k.at = "running" /\ pc[k.of] = "wait" => proc.buf = << >>

\* A command is logged once, and a client's commands in their order, unless a
\* child that found no program has written what it copied.
LoggedOnce ==
  \/ proc.echoed
  \/ LET all == proc.log \o proc.buf
     IN  \A i, j \in DOMAIN all : i < j /\ all[i].by = all[j].by => all[i].nr < all[j].nr

\* A thread that has something to log gets to do it, unless it is kept out by
\* the child of a getlog that does not end.
LogIsGot ==
  \A t \in Threads :
    pc[t] = "log" ~> \/ pc[t] # "log" \/ wild
                     \/ \E u \in Threads : pc[u] = "wait" /\ cmd[u] = "getlog"
=============================================================================
