----------------------------- MODULE DriverLoad -----------------------------
(***************************************************************************)
(* Loading and unloading the drivers of 6_cdrv and 7_cdrv: cdrv_init takes *)
(* one thing after the other and gives them back by a chain of labels when *)
(* a step fails, cdrv_exit gives all back.  What cdrv_init has made is in  *)
(* use at once: programs open the first devices, and read the file in      *)
(* /proc, while the load, or its undoing, goes on.                         *)
(*                                                                         *)
(* A thing is a pair of its name and a minor number.  The kernel lets a    *)
(* module go when no device file is open, unless it is forced; a load that *)
(* fails frees the module in any case, and does not ask for open files.    *)
(* A load whose class fails gives the memory back and reports success: the *)
(* driver is on, with the region and nothing else.                         *)
(***************************************************************************)
EXTENDS Integers, Sequences, SequencesExt

CONSTANTS
  Drivers,      \* the drivers to look at: 6, 7
  MINOR_COUNT,
  MaxOpen       \* bound: open files of a device

ASSUME DriverLoadAssumption ==
  Drivers \subseteq {6, 7} /\ {MINOR_COUNT, MaxOpen} \subseteq Nat \ {0}

VARIABLES
  driver,   \* it never changes
  pc,
  plan,     \* the steps that are left of cdrv_init, its labels or cdrv_exit
  held,     \* what the driver has, or has lost track of
  open,     \* the open files of each device
  bad       \* uses of memory that is freed, or not set, and a forced rmmod

vars == <<driver, pc, plan, held, open, bad>>

Minors == 0..MINOR_COUNT - 1
Forced == <<"rmmod", "forced">>
One(what) == <<what, 0>>
Each(what) == {<<what, i>> : i \in Minors}
Proc == IF driver = 7 THEN <<One("dir"), One("file")>> ELSE << >>
ProcBack == Reverse(Proc)
\* for each device one after the other: what[1], what[2], what[3]
Devices(what) ==
  [k \in 1..3 * MINOR_COUNT |-> <<what[((k - 1) % 3) + 1], (k - 1) \div 3>>]

Init ==
  /\ driver \in Drivers
  /\ pc = "off" /\ plan = << >> /\ held = {} /\ bad = {}
  /\ open = [i \in Minors |-> 0]

-----------------------------------------------------------------------------
\* cdrv_init; "device" stands for the fields of my_devs[i].
SetupMut ==                                 \* cdev_add before sema_init
  <<One("memory"), One("region"), One("class")>> \o Proc
  \o Devices(<<"cdev", "device", "node">>)
Setup ==
  <<One("memory"), One("region"), One("class")>> \o Proc
  \o Devices(<<"device", "cdev", "node">>)

Insmod ==
  /\ pc = "off"
  /\ pc' = "load" /\ plan' = Setup
  /\ UNCHANGED <<driver, held, open, bad>>

\* The result of device_create is not looked at.
Load ==
  /\ pc = "load"
  /\ IF plan = << >> THEN pc' = "on" /\ UNCHANGED <<plan, held>>
     ELSE /\ \/ held' = held \cup {Head(plan)}
             \/ Head(plan)[1] = "node" /\ UNCHANGED held
          /\ plan' = Tail(plan) /\ UNCHANGED pc
  /\ UNCHANGED <<driver, open, bad>>

Err3Mut(last) ==                            \* i > 0
  [k \in 1..last |-> <<"cdev", last + 1 - k>>] \o <<One("region"), One("memory")>>
\* err3: the devices from the last one down, the region; err2: the memory
Err3(last) ==
  [k \in 1..last + 1 |-> <<"cdev", last + 1 - k>>] \o <<One("region"), One("memory")>>

\* The label a failed step goes to.  Before the loop i has no value.
UnwindMut(step) ==                          \* without i--
  {IF step[1] = "cdev" THEN ProcBack \o Err3(step[2]) ELSE <<One("memory")>>}
Unwind(step) ==
  CASE step[1] = "memory" -> {<< >>}
    [] step[1] \in {"region", "class"} -> {<<One("memory")>>}
    [] step[1] = "dir" -> {Err3(i) : i \in Minors \cup {-1}}
    [] step[1] = "file" -> {<<One("dir")>> \o Err3(i) : i \in Minors \cup {-1}}
    [] step[1] = "cdev" -> {ProcBack \o Err3(step[2] - 1)}

\* "zero" is err2 with the result of alloc_chrdev_region, which was good:
\* class_create, unlike /proc and cdev_add, leaves none of its own.
LoadFails ==
  /\ pc = "load" /\ plan # << >> /\ Head(plan)[1] \notin {"node", "device"}
  /\ plan' \in Unwind(Head(plan))
  /\ pc' = (IF Head(plan) = One("class") THEN "zero" ELSE "back")
  /\ UNCHANGED <<driver, held, open, bad>>

-----------------------------------------------------------------------------
\* cdrv_exit
Teardown ==
  ProcBack \o Devices(<<"node", "cdev", "buffer">>)
  \o <<One("class"), One("region"), One("memory")>>

\* The Makefiles force it, with files open or not.
Rmmod ==
  /\ pc = "on"
  /\ \/ (\A i \in Minors : open[i] = 0) /\ UNCHANGED bad
     \/ (\E i \in Minors : open[i] > 0) /\ bad' = bad \cup {Forced}
  /\ pc' = "unload" /\ plan' = Teardown
  /\ UNCHANGED <<driver, held, open>>

\* Where the last label, or the end of cdrv_exit, leaves the driver
Outcome == [back |-> "failed", zero |-> "on", unload |-> "off"]

\* device_destroy and cdev_del read my_devs[i].  cdev_del of memory that
\* cdev_init never saw, or that is freed, may do anything.
GiveBack ==
  /\ pc \in {"back", "zero", "unload"}
  /\ IF plan = << >> THEN pc' = Outcome[pc] /\ UNCHANGED <<plan, held, bad>>
     ELSE /\ plan' = Tail(plan)
          /\ bad' = bad \cup (IF Head(plan)[1] = "node" /\ One("memory") \notin held
                             THEN {<<"exit", "freed">>} ELSE {})
          /\ IF Head(plan)[1] = "cdev" /\ Head(plan) \notin held
             THEN pc' = "astray" /\ UNCHANGED held
             ELSE /\ UNCHANGED pc
                  /\ held' = held \ ({Head(plan)} \cup
                       (IF Head(plan) = One("memory") THEN Each("device") ELSE {}))
  /\ UNCHANGED <<driver, open>>

-----------------------------------------------------------------------------
\* The programs.  A device can be opened once cdev_add has returned,
\* by a node of an earlier load as well.
Touch(i, who) ==
  bad' = bad \cup (IF One("memory") \notin held THEN {<<who, "freed">>}
                   ELSE IF <<"device", i>> \notin held THEN {<<who, "unset">>} ELSE {})

OpenDevice(i) ==
  /\ pc \in {"load", "back", "on"} /\ open[i] < MaxOpen
  /\ <<"cdev", i>> \in held
  /\ open' = [open EXCEPT ![i] = @ + 1]
  /\ held' \in {held, held \cup {<<"buffer", i>>}}
  /\ Touch(i, "file")
  /\ UNCHANGED <<driver, pc, plan>>

Release(i) ==
  /\ open[i] > 0
  /\ open' = [open EXCEPT ![i] = @ - 1]
  /\ Touch(i, "file")
  /\ UNCHANGED <<driver, pc, plan, held>>

\* my_seq_file_show; remove_proc_entry waits for it.
ShowProc(i) ==
  /\ One("file") \in held
  /\ Touch(i, "proc")
  /\ UNCHANGED <<driver, pc, plan, held, open>>

Next ==
  \/ Insmod \/ Load \/ LoadFails \/ Rmmod \/ GiveBack
  \/ \E i \in Minors : OpenDevice(i) \/ Release(i) \/ ShowProc(i)

Spec == Init /\ [][Next]_vars

-----------------------------------------------------------------------------
(* Properties                                                              *)

\* An unloaded driver has given everything back.  A load that failed has kept
\* at most the class, the nodes of the devices it had made, and the buffers
\* programs had filled in the meantime; never the memory, the region, a device
\* or something in /proc.
NothingLeftBehind ==
  /\ pc = "off" => held = {}
  /\ pc = "failed" => held \subseteq {One("class")} \cup Each("node") \cup Each("buffer")

\* The file in /proc is gone before the memory it reads, and a device is set up
\* before it can be opened.  Unless rmmod was forced, a file meets freed memory
\* only if its device was live before a later device failed, and cdrv_exit
\* meets it only after a load that went on without its class.  A driver
\* that is on has all its devices set up, or is such a load.
NoUseAfterFree ==
  /\ <<"proc", "freed">> \notin bad
  /\ Forced \in bad \/
       /\ <<"file", "unset">> \notin bad
       /\ <<"file", "freed">> \in bad => pc \in {"back", "failed"} /\ One("class") \in held
  /\ <<"exit", "freed">> \in bad => pc \in {"unload", "astray"} /\ held = {One("region")}
  /\ pc = "on" => Each("device") \subseteq held \/ held = {One("region")}

\* A device that was never added is deleted only when /proc refused, or when
\* a driver that went on without its class is unloaded.
OnlyAddedDeleted ==
  pc = "astray" =>
    \/ held = {One("region")}
    \/ /\ driver = 7 /\ One("class") \in held
       /\ held \cap (Each("cdev") \cup Each("node")) = {}
=============================================================================
