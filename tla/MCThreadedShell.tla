-------------------------- MODULE MCThreadedShell ---------------------------
(* ThreadedShell with directories one below the other: the root, a in it   *)
(* and b in a.                                                             *)
EXTENDS ThreadedShell, TLC
CONSTANTS t1, t2, a, b
Below == Root :> a @@ a :> b @@ b :> NoDir

\* No step reads a command once its thread is back in the prompt or logs it, and
\* no property does but TypeOK: states that differ in it only are the same.  Every step
\* changes something else too, so that fairness sees the same steps.
Pending == [t \in Threads |-> IF pc[t] \in {"cd", "chdir", "fork", "getlog", "wait"}
                              THEN cmd[t] ELSE "none"]
WithoutPastCommands == <<onDisk, proc, pc, dir, Pending, count, kids, wild>>
=============================================================================
