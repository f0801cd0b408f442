----------------------------- MODULE ShmChannel -----------------------------
(***************************************************************************)
(* 5b_Menu and 5b_Display: the menu passes one line at a time to a display *)
(* through shared memory, and two named semaphores say whose turn it is.   *)
(* The menu creates the three objects anew, each with an unlink and an     *)
(* open; a display opens what it finds under the names.  Menu and displays *)
(* are started by hand, more than once.                                    *)
(*                                                                         *)
(* An action is one call on a shared object.                               *)
(***************************************************************************)
EXTENDS Naturals, Sequences, FiniteSets

CONSTANTS
  Displays,  \* the display processes
  Menu,      \* the menu process
  Lines,     \* what can be typed
  Quit,      \* "quit"
  Empty,     \* the empty line, which is also what new memory holds
  MaxRuns,   \* bound: how often the menu is started
  MaxSent,   \* bound: lines per run, the last of them is Quit
  Orderly    \* whether menu and displays are started one after the other

ASSUME ChannelAssumption ==
  /\ Menu \notin Displays
  /\ Quit \in Lines /\ Quit # Empty
  /\ MaxRuns \in Nat /\ MaxSent \in Nat \ {0}
  /\ Orderly \in BOOLEAN

VARIABLES
  name,     \* the object each name stands for, 0 when it is unlinked
  obj,      \* the objects ever created: semaphore values and memories
  pc,
  open,     \* the objects each process has opened
  line,     \* the local buffer of each process
  sent,     \* the lines this run of the menu has written
  received, \* the lines copied by displays during this run
  runs

vars == <<name, obj, pc, open, line, sent, received, runs>>

Procs == Displays \cup {Menu}
Kinds == {"write", "read", "shm"}
Turn == {"write", "read"}       \* the semaphores

\* What a new object holds: semwrite 0, semread 1, zeroed memory.
NewMut == [write |-> 1, read |-> 1, shm |-> Empty]   \* both have a turn
New == [write |-> 0, read |-> 1, shm |-> Empty]

Init ==
  /\ name = [k \in Kinds |-> 0]
  /\ obj = [k \in Kinds |-> << >>]
  /\ pc = [p \in Procs |-> "off"]
  /\ open = [p \in Procs |-> [k \in Kinds |-> 0]]
  /\ line = [p \in Procs |-> Empty]
  /\ sent = << >> /\ received = << >>
  /\ runs = 0

Goto(p, l) == pc' = [pc EXCEPT ![p] = l]
Ended(p) == pc[p] \in {"off", "done"}
Serving == pc[Menu] \in {"gets", "wait", "copy", "post", "done"}
Memory(p) == obj["shm"][open[p]["shm"]]

\* shm_open or sem_open with O_CREAT, after which the process is at l
OpenOrCreate(p, k, l) ==
  LET o == IF name[k] # 0 THEN name[k] ELSE Len(obj[k]) + 1
  IN  /\ name' = [name EXCEPT ![k] = o]
      /\ obj' = IF name[k] # 0 THEN obj ELSE [obj EXCEPT ![k] = Append(@, New[k])]
      /\ open' = [open EXCEPT ![p][k] = o]
      /\ Goto(p, l)
      /\ UNCHANGED <<line, sent, received, runs>>

SemWait(p, k, l) ==
  /\ obj[k][open[p][k]] > 0
  /\ obj' = [obj EXCEPT ![k][open[p][k]] = @ - 1]
  /\ Goto(p, l)
  /\ UNCHANGED <<name, open, line, sent, received, runs>>

SemPost(p, k, l) ==
  /\ obj' = [obj EXCEPT ![k][open[p][k]] = @ + 1]
  /\ Goto(p, l)
  /\ UNCHANGED <<name, open, line, sent, received, runs>>

-----------------------------------------------------------------------------
(* The menu.                                                               *)

MenuStart ==
  /\ Ended(Menu) /\ runs < MaxRuns
  /\ Orderly => \A d \in Displays : Ended(d)
  /\ runs' = runs + 1
  /\ sent' = << >> /\ received' = << >>
  /\ Goto(Menu, "unlink_write")
  /\ UNCHANGED <<name, obj, open, line>>

UnlinkMut(k) == name[k]                     \* the old object is kept
Unlink(k) == 0

MenuUnlink(k, from, to) ==
  /\ pc[Menu] = from
  /\ name' = [name EXCEPT ![k] = Unlink(k)]
  /\ Goto(Menu, to)
  /\ UNCHANGED <<obj, open, line, sent, received, runs>>

MenuOpen(k, from, to) == pc[Menu] = from /\ OpenOrCreate(Menu, k, to)

MenuSetup ==
  \/ MenuUnlink("write", "unlink_write", "open_write")
  \/ MenuOpen("write", "open_write", "unlink_read")
  \/ MenuUnlink("read", "unlink_read", "open_read")
  \/ MenuOpen("read", "open_read", "unlink_shm")
  \/ MenuUnlink("shm", "unlink_shm", "open_shm")
  \/ MenuOpen("shm", "open_shm", "gets")

\* fgets.  At the end of the input it leaves the line that was there.
Gets ==
  /\ pc[Menu] = "gets"
  /\ \E l \in Lines :
       /\ Len(sent) + 1 < MaxSent \/ l = Quit
       /\ line' = [line EXCEPT ![Menu] = l]
  /\ Goto(Menu, "wait")
  /\ UNCHANGED <<name, obj, open, sent, received, runs>>

MenuWait == pc[Menu] = "wait" /\ SemWait(Menu, "write", "copy")

MenuCopy ==
  /\ pc[Menu] = "copy"
  /\ obj' = [obj EXCEPT !["shm"][open[Menu]["shm"]] = line[Menu]]
  /\ sent' = Append(sent, line[Menu])
  /\ Goto(Menu, "post")
  /\ UNCHANGED <<name, open, line, received, runs>>

MenuPost ==
  /\ pc[Menu] = "post"
  /\ SemPost(Menu, "read", IF line[Menu] = Quit THEN "done" ELSE "gets")

-----------------------------------------------------------------------------
(* A display.                                                              *)

DisplayStart(d) ==
  /\ Ended(d)
  /\ Orderly => Serving \/ pc[Menu] = "off"
  /\ Goto(d, "open_write")
  /\ line' = [line EXCEPT ![d] = Empty]
  /\ UNCHANGED <<name, obj, open, sent, received, runs>>

\* sem_open without O_CREAT: the program returns when there is no such name.
DisplayOpenSem(d, k, from, to) ==
  /\ pc[d] = from
  /\ open' = [open EXCEPT ![d][k] = name[k]]
  /\ Goto(d, IF name[k] = 0 THEN "done" ELSE to)
  /\ UNCHANGED <<name, obj, line, sent, received, runs>>

DisplaySetup(d) ==
  \/ DisplayOpenSem(d, "write", "open_write", "open_read")
  \/ DisplayOpenSem(d, "read", "open_read", "open_shm")
  \/ pc[d] = "open_shm" /\ OpenOrCreate(d, "shm", "wait")

DisplayWait(d) == pc[d] = "wait" /\ SemWait(d, "read", "copy")

DisplayCopy(d) ==
  /\ pc[d] = "copy"
  /\ line' = [line EXCEPT ![d] = Memory(d)]
  /\ received' = Append(received, Memory(d))
  /\ Goto(d, "post")
  /\ UNCHANGED <<name, obj, open, sent, runs>>

DisplayPostMut(d) ==                        \* the turn is kept
  /\ pc[d] = "post" /\ Goto(d, "test")
  /\ UNCHANGED <<name, obj, open, line, sent, received, runs>>
DisplayPost(d) == pc[d] = "post" /\ SemPost(d, "write", "test")

\* The test for an empty line looks at the memory once more, when the menu
\* may already write there: ExclusiveAccess says when it sees its own line.
LastLineMut(d) == FALSE                     \* the loop never ends
LastLine(d) == line[d] = Quit

DisplayTest(d) ==
  /\ pc[d] = "test"
  /\ Goto(d, IF LastLine(d) THEN "done" ELSE "wait")
  /\ UNCHANGED <<name, obj, open, line, sent, received, runs>>

-----------------------------------------------------------------------------
MenuStep == MenuSetup \/ MenuWait \/ MenuCopy \/ MenuPost
DisplayStep(d) ==
  DisplaySetup(d) \/ DisplayWait(d) \/ DisplayCopy(d) \/ DisplayPost(d) \/ DisplayTest(d)

Next ==
  \/ MenuStart \/ Gets \/ MenuStep
  \/ \E d \in Displays : DisplayStart(d) \/ DisplayStep(d)

Spec == Init /\ [][Next]_vars

\* A program that can go on does; nobody has to type or to start anything.
FairSpec ==
  /\ Spec
  /\ WF_vars(MenuStep)
  /\ \A d \in Displays : WF_vars(DisplayStep(d))

-----------------------------------------------------------------------------
PCs == {"off", "done", "unlink_write", "open_write", "unlink_read", "open_read",
        "unlink_shm", "open_shm", "gets", "wait", "copy", "post", "test"}

\* The values every variable ranges over; the semaphores are binary.
TypeOK ==
  /\ \A k \in Kinds : name[k] \in 0..Len(obj[k])
  /\ \A k \in Turn : obj[k] \in Seq({0, 1})
  /\ obj["shm"] \in Seq(Lines \cup {Empty})
  /\ pc \in [Procs -> PCs]
  /\ \A p \in Procs, k \in Kinds : open[p][k] \in 0..Len(obj[k])
  /\ line \in [Procs -> Lines \cup {Empty}]
  /\ sent \in Seq(Lines) /\ received \in Seq(Lines \cup {Empty})
  /\ runs \in 0..MaxRuns

\* The value of the semaphore k that the menu uses
Value(k) == obj[k][open[Menu][k]]
Joined(p) == open[p] = open[Menu]
HasTurn == {p \in Procs : pc[p] \in {"copy", "post"}}

\* One turn goes round between the menu and its displays: it is in one of the
\* two semaphores or with the one process that has taken it.
OneTurn ==
  Serving => /\ \A p \in HasTurn : Joined(p)
             /\ Value("write") + Value("read") + Cardinality(HasTurn) = 1

\* Nobody copies a line into or out of the memory while another one does.  The
\* line a lone display looks at after it gave its turn back is still the one it
\* copied, as long as the menu has not taken the turn.
ExclusiveAccess ==
  /\ \A p, q \in Procs :
       pc[p] = "copy" /\ pc[q] = "copy" /\ open[p]["shm"] = open[q]["shm"] => p = q
  /\ \A d \in Displays :
       /\ pc[d] = "test" /\ obj["write"][open[d]["write"]] = 1
       /\ \A e \in Displays \ {d} : open[e]["shm"] # open[d]["shm"]
       => Memory(d) = line[d]

\* The displays together copy the empty line of new memory and then each line
\* of the menu once, in order and at most one behind, however many there are
\* and whenever they are started.
NothingLostOrDoubled ==
  Serving =>
    /\ Len(received) \in {Len(sent), Len(sent) + 1}
    /\ received = SubSeq(<<Empty>> \o sent, 1, Len(received))

InLoop(d) == pc[d] \in {"wait", "copy", "post", "test"} /\ Joined(d)

\* A menu that waits for its turn gets it while a display is there.
Handover ==
  (pc[Menu] = "wait" /\ \E d \in Displays : InLoop(d)) ~> pc[Menu] # "wait"

\* The last line ends the display that takes it.
QuitEnds ==
  (/\ pc[Menu] = "done" /\ Len(received) = Len(sent)
   /\ \E d \in Displays : InLoop(d))
    ~> \E d \in Displays : pc[d] = "done" /\ line[d] = Quit
=============================================================================
